---- MODULE Spec2Model ----
(***************************************************************************)
(* Model of the omdb client library (src/client.go, src/model.go).         *)
(*                                                                         *)
(* Representation.                                                         *)
(*  - Title, ImdbID, SearchType, Plot and the API key are atomic strings.   *)
(*  - Year and Page are sequences of one-character strings, because the    *)
(*    code parses them with strconv.Atoi; "" is the empty sequence.        *)
(*  - A response body is the JSON document its bytes spell (JInvalid when  *)
(*    the bytes are not JSON).  Object keys are taken as already folded to *)
(*    the struct field names (encoding/json matches them without regard to *)
(*    case).                                                               *)
(*  - int is 64 bits wide (strconv.IntSize on the usual build targets).    *)
(*  - Every call of the transport, of ioutil.ReadAll, of json.Unmarshal    *)
(*    and of Body.Close is appended to the log `events`, in program order  *)
(*    (a deferred Close is logged where it runs, at the return).           *)
(***************************************************************************)
EXTENDS Integers, Sequences, FiniteSets, TLC

VARIABLES apiKey, httpClient, q, env, op, val, err, events, req

vars == <<apiKey, httpClient, q, env, op, val, err, events, req>>

-----------------------------------------------------------------------------
(* Program constants.                                                      *)

DefaultURL == "http://www.omdbapi.com/"
StatusOK == 200
MinYear == 1888
MinPage == 1
MaxPage == 100

(* Bounds: the longest Year or Page string SpecAtoi enumerates, and the     *)
(* number of fields in which a query of Spec differs from BaseQuery.       *)
MaxLen == 4
MaxDeviations == 2

-----------------------------------------------------------------------------
(* strconv.Atoi                                                            *)

Digits == {"0", "1", "2", "3", "4", "5", "6", "7", "8", "9"}

DigitVal ==
    ("0" :> 0) @@ ("1" :> 1) @@ ("2" :> 2) @@ ("3" :> 3) @@ ("4" :> 4) @@
    ("5" :> 5) @@ ("6" :> 6) @@ ("7" :> 7) @@ ("8" :> 8) @@ ("9" :> 9)

(* Decimal digits of 1<<63 - 1, the largest int.                           *)
MaxIntDigits ==
    <<9, 2, 2, 3, 3, 7, 2, 0, 3, 6, 8, 5, 4, 7, 7, 5, 8, 0, 7>>

(* Decimal digits of 1<<63, the magnitude of the smallest int.             *)
MinIntDigits ==
    <<9, 2, 2, 3, 3, 7, 2, 0, 3, 6, 8, 5, 4, 7, 7, 5, 8, 0, 8>>

RECURSIVE StripZeros(_)
StripZeros(d) ==
    IF Len(d) > 1 /\ d[1] = "0" THEN StripZeros(Tail(d)) ELSE d

RECURSIVE DigitsValue(_)
DigitsValue(d) ==
    IF d = <<>> THEN 0
    ELSE 10 * DigitsValue(SubSeq(d, 1, Len(d) - 1)) + DigitVal[d[Len(d)]]

(* d, a digit string without leading zeros, is a larger number than lim.   *)
Exceeds(d, lim) ==
    \/ Len(d) > Len(lim)
    \/ /\ Len(d) = Len(lim)
       /\ \E i \in 1..Len(d) :
            /\ DigitVal[d[i]] > lim[i]
            /\ \A j \in 1..(i - 1) : DigitVal[d[j]] = lim[j]

(* strconv.Atoi(s): [ok, n, why].  On a range error Go also returns the    *)
(* clamped value; the callers read only the error then, so n is 0 here.    *)
Atoi(s) ==
    LET signed == Len(s) > 0 /\ s[1] \in {"+", "-"}
        neg    == Len(s) > 0 /\ s[1] = "-"
        body   == IF signed THEN Tail(s) ELSE s
    IN  IF Len(body) = 0 \/ \E i \in 1..Len(body) : body[i] \notin Digits
        THEN [ok |-> FALSE, n |-> 0, why |-> "syntax"]
        ELSE IF Exceeds(StripZeros(body), IF neg THEN MinIntDigits ELSE MaxIntDigits)
        THEN [ok |-> FALSE, n |-> 0, why |-> "range"]
        ELSE [ok |-> TRUE,
              n |-> IF neg THEN 0 - DigitsValue(body) ELSE DigitsValue(body),
              why |-> "none"]

-----------------------------------------------------------------------------
(* JSON documents and encoding/json.Unmarshal                              *)

JInvalid == [k |-> "invalid"]
JAbsent == [k |-> "absent"]
JNull == [k |-> "null"]
JNum == [k |-> "number"]
JStr(s) == [k |-> "string", s |-> s]
JArr(items) == [k |-> "array", items |-> items]
JObj(m) == [k |-> "object", m |-> m]

Member(v, key) == IF key \in DOMAIN v.m THEN v.m[key] ELSE JAbsent

(* A string field: a JSON string is stored, null and a missing key leave   *)
(* the zero value, any other JSON value is an UnmarshalTypeError.          *)
DecodeString(v) == IF v.k = "string" THEN v.s ELSE ""

StringErr(v) == v.k \notin {"string", "null", "absent"}

(* A struct of string fields as an element or a nested value.              *)
StructValue(fields, v) ==
    [f \in fields |-> IF v.k = "object" THEN DecodeString(Member(v, f)) ELSE ""]

StructErr(fields, v) ==
    \/ v.k \notin {"object", "null", "absent"}
    \/ v.k = "object" /\ \E f \in fields : StringErr(Member(v, f))

(* A slice of structs: a JSON array element by element, null and a missing *)
(* key give the nil slice, any other JSON value is an UnmarshalTypeError.  *)
SliceValue(fields, v) ==
    IF v.k = "array"
    THEN [i \in 1..Len(v.items) |-> StructValue(fields, v.items[i])]
    ELSE <<>>

SliceErr(fields, v) ==
    \/ v.k \notin {"array", "null", "absent"}
    \/ v.k = "array" /\ \E i \in 1..Len(v.items) : StructErr(fields, v.items[i])

(* The outcome of json.Unmarshal(data, &target): "syntax" when data is not *)
(* JSON (nothing is decoded), "type" when some value does not fit its      *)
(* field, "none" otherwise.  The top-level null decodes to the zero value. *)
UnmarshalErr(data, fieldErr) ==
    IF data.k = "invalid" THEN "syntax"
    ELSE IF data.k = "null" THEN "none"
    ELSE IF data.k # "object" THEN "type"
    ELSE IF fieldErr THEN "type"
    ELSE "none"

EnvelopeFields == {"Type", "Response", "Error"}

RatingFields == {"Source", "Value"}

CommonFields ==
    {"Title", "Year", "Rated", "Released", "Runtime", "Genre", "Director",
     "Writer", "Actors", "Plot", "Language", "Country", "Awards", "Poster",
     "Metascore", "ImdbRating", "ImdbVotes", "ImdbID"}

MovieFields == CommonFields \cup {"DVD", "BoxOffice", "Production", "Website"}

SeriesFields == CommonFields \cup {"TotalSeasons"}

EpisodeFields == CommonFields \cup {"SeriesID"}

SearchResultFields == {"Title", "Year", "ImdbID", "Type", "Poster"}

SearchResponseFields == {"TotalResults", "Response", "Error"}

UnmarshalEnvelope(data) ==
    [err |-> UnmarshalErr(data, StructErr(EnvelopeFields, data)),
     v   |-> StructValue(EnvelopeFields, data)]

(* MovieResult, SeriesResult and EpisodeResult: string fields and Ratings. *)
UnmarshalResult(kind, fields, data) ==
    [err |-> UnmarshalErr(data, StructErr(fields, data)
                                \/ SliceErr(RatingFields, Member(data, "Ratings"))),
     v   |-> [kind    |-> kind,
              f       |-> StructValue(fields, data),
              Ratings |-> IF data.k = "object"
                          THEN SliceValue(RatingFields, Member(data, "Ratings"))
                          ELSE <<>>]]

UnmarshalSearchResponse(data) ==
    [err |-> UnmarshalErr(data, StructErr(SearchResponseFields, data)
                                \/ SliceErr(SearchResultFields, Member(data, "Search"))),
     v   |-> [kind   |-> "SearchResponse",
              f      |-> StructValue(SearchResponseFields, data),
              Search |-> IF data.k = "object"
                         THEN SliceValue(SearchResultFields, Member(data, "Search"))
                         ELSE <<>>]]

-----------------------------------------------------------------------------
(* Values, errors and url.Values                                           *)

Nil == [kind |-> "nil"]

NoErr == [kind |-> "nil", msg |-> <<>>]

(* errors.New / fmt.Errorf: the message is the concatenation of msg.  The  *)
(* kind names the place that made the error; Go sees only the message.     *)
NewError(kind, msg) == [kind |-> kind, msg |-> msg]

NoReq == [sent |-> FALSE]

NoParams == <<>>

(* url.Values.Add of a key not yet present.                                *)
Add(params, key, value) == params @@ (key :> value)

(* url.Values.Set: replaces whatever the key held.                         *)
Set(params, key, value) == (key :> value) @@ params

Out(v, e, ev, r) == [val |-> v, err |-> e, events |-> ev, req |-> r]

-----------------------------------------------------------------------------
(* Client.requestOmdbAPI                                                   *)

(* Mutant: the status of the response is not looked at.                    *)
requestOmdbAPINoStatusCheck(params) ==
    IF httpClient = "nil"
    THEN [res |-> Nil, err |-> NewError("config", <<"http.Client is not provided">>),
          events |-> <<>>, req |-> NoReq]
    ELSE IF apiKey = ""
    THEN [res |-> Nil, err |-> NewError("config", <<"Missing OMDB API Key">>),
          events |-> <<>>, req |-> NoReq]
    ELSE LET sent == [sent |-> TRUE, method |-> "GET", url |-> DefaultURL,
                      params |-> Set(params, "apikey", apiKey)]
         IN  IF env.doErr
             THEN [res |-> Nil, err |-> NewError("transport", <<"Do failed">>),
                   events |-> <<"Do">>, req |-> sent]
             ELSE [res |-> [kind |-> "Response", status |-> env.status, body |-> env.body],
                   err |-> NoErr, events |-> <<"Do">>, req |-> sent]

(* Mutant: the API key is not checked before the request is sent.          *)
requestOmdbAPINoKeyCheck(params) ==
    IF httpClient = "nil"
    THEN [res |-> Nil, err |-> NewError("config", <<"http.Client is not provided">>),
          events |-> <<>>, req |-> NoReq]
    ELSE LET sent == [sent |-> TRUE, method |-> "GET", url |-> DefaultURL,
                      params |-> Set(params, "apikey", apiKey)]
         IN  IF env.doErr
             THEN [res |-> Nil, err |-> NewError("transport", <<"Do failed">>),
                   events |-> <<"Do">>, req |-> sent]
             ELSE IF env.status # StatusOK
             THEN [res |-> Nil,
                   err |-> NewError("status", <<"http Status = ", env.status>>),
                   events |-> <<"Do", "Close">>, req |-> sent]
             ELSE [res |-> [kind |-> "Response", status |-> env.status, body |-> env.body],
                   err |-> NoErr, events |-> <<"Do">>, req |-> sent]

(* Mutant: the body of a response that is not 200 is left open.            *)
requestOmdbAPINoClose(params) ==
    IF httpClient = "nil"
    THEN [res |-> Nil, err |-> NewError("config", <<"http.Client is not provided">>),
          events |-> <<>>, req |-> NoReq]
    ELSE IF apiKey = ""
    THEN [res |-> Nil, err |-> NewError("config", <<"Missing OMDB API Key">>),
          events |-> <<>>, req |-> NoReq]
    ELSE LET sent == [sent |-> TRUE, method |-> "GET", url |-> DefaultURL,
                      params |-> Set(params, "apikey", apiKey)]
         IN  IF env.doErr
             THEN [res |-> Nil, err |-> NewError("transport", <<"Do failed">>),
                   events |-> <<"Do">>, req |-> sent]
             ELSE IF env.status # StatusOK
             THEN [res |-> Nil,
                   err |-> NewError("status", <<"http Status = ", env.status>>),
                   events |-> <<"Do">>, req |-> sent]
             ELSE [res |-> [kind |-> "Response", status |-> env.status, body |-> env.body],
                   err |-> NoErr, events |-> <<"Do">>, req |-> sent]


requestOmdbAPI(params) ==
    IF httpClient = "nil"
    THEN [res |-> Nil, err |-> NewError("config", <<"http.Client is not provided">>),
          events |-> <<>>, req |-> NoReq]
    ELSE IF apiKey = ""
    THEN [res |-> Nil, err |-> NewError("config", <<"Missing OMDB API Key">>),
          events |-> <<>>, req |-> NoReq]
    ELSE LET sent == [sent |-> TRUE, method |-> "GET", url |-> DefaultURL,
                      params |-> Set(params, "apikey", apiKey)]
         IN  IF env.doErr
             THEN [res |-> Nil, err |-> NewError("transport", <<"Do failed">>),
                   events |-> <<"Do">>, req |-> sent]
             ELSE IF env.status # StatusOK
             THEN [res |-> Nil,
                   err |-> NewError("status", <<"http Status = ", env.status>>),
                   events |-> <<"Do", "Close">>, req |-> sent]
             ELSE [res |-> [kind |-> "Response", status |-> env.status, body |-> env.body],
                   err |-> NoErr, events |-> <<"Do">>, req |-> sent]

(* ioutil.ReadAll(res.Body) failed: nothing was decoded.                   *)
ReadFailed ==
    [val |-> Nil, err |-> NewError("read", <<"ReadAll failed">>), events |-> <<>>]

(* The return of an operation that got the response of r, read its body    *)
(* and went on as d says: the Close deferred after requestOmdbAPI runs     *)
(* last on every path.                                                     *)
Finish(r, d) ==
    Out(d.val, d.err, r.events \o <<"ReadAll">> \o d.events \o <<"Close">>, r.req)

DecodeError(why) == NewError("decode", <<"json: ", why>>)

-----------------------------------------------------------------------------
(* Client.SearchByImdbID                                                   *)

(* Mutant: the year of the query is sent along with the identifier.        *)
SearchByImdbIDParamsWithYear(qq) ==
    IF qq.Year # <<>>
    THEN Add(Add(NoParams, "i", qq.ImdbID), "y", qq.Year)
    ELSE Add(NoParams, "i", qq.ImdbID)


SearchByImdbIDParams(qq) == Add(NoParams, "i", qq.ImdbID)

SearchByImdbIDDecode(data) ==
    LET e == UnmarshalEnvelope(data)
    IN  IF e.err # "none"
        THEN [val |-> Nil, err |-> DecodeError(e.err), events |-> <<"Unmarshal">>]
        ELSE IF e.v.Response = "False"
        THEN [val |-> Nil,
              err |-> NewError("api", <<"Error from OMDB API: ", e.v.Error>>),
              events |-> <<"Unmarshal">>]
        ELSE IF e.v.Type \in {"movie", "series", "episode"}
        THEN LET r == CASE e.v.Type = "movie" ->
                             UnmarshalResult("MovieResult", MovieFields, data)
                        [] e.v.Type = "series" ->
                             UnmarshalResult("SeriesResult", SeriesFields, data)
                        [] e.v.Type = "episode" ->
                             UnmarshalResult("EpisodeResult", EpisodeFields, data)
             IN  IF r.err # "none"
                 THEN [val |-> Nil, err |-> DecodeError(r.err),
                       events |-> <<"Unmarshal", "Unmarshal">>]
                 ELSE [val |-> r.v, err |-> NoErr,
                       events |-> <<"Unmarshal", "Unmarshal">>]
        ELSE [val |-> Nil, err |-> NoErr, events |-> <<"Unmarshal">>]

SearchByImdbIDCall(qq) ==
    IF qq.ImdbID = ""
    THEN Out(Nil, NewError("validation", <<"Missing ImdbID in query">>), <<>>, NoReq)
    ELSE LET r == requestOmdbAPI(SearchByImdbIDParams(qq))
         IN  IF r.err.kind # "nil"
             THEN Out(Nil, r.err, r.events, r.req)
             ELSE IF env.readErr THEN Finish(r, ReadFailed)
             ELSE Finish(r, SearchByImdbIDDecode(r.res.body))

-----------------------------------------------------------------------------
(* Client.SearchByTitle                                                    *)

TitleSearchTypeErr(qq) ==
    IF qq.SearchType # "" /\ qq.SearchType # "movie" /\ qq.SearchType # "series"
       /\ qq.SearchType # "episode"
    THEN NewError("validation",
           <<"omdb: Searchtype should be either blank or one of following: movie, series, episode">>)
    ELSE NoErr

(* Mutant: the year boundary is exclusive.                                 *)
TitleYearErrOffByOne(qq) ==
    IF qq.Year # <<>>
    THEN LET i == Atoi(qq.Year)
         IN  IF ~i.ok
             THEN NewError("validation",
                    <<"omdb: Year should be either blank or a valid number">>)
             ELSE IF i.n <= MinYear
             THEN NewError("validation",
                    <<"omdb: Year should be either blank or greater than 1887">>)
             ELSE NoErr
    ELSE NoErr


TitleYearErr(qq) ==
    IF qq.Year # <<>>
    THEN LET i == Atoi(qq.Year)
         IN  IF ~i.ok
             THEN NewError("validation",
                    <<"omdb: Year should be either blank or a valid number">>)
             ELSE IF i.n < MinYear
             THEN NewError("validation",
                    <<"omdb: Year should be either blank or greater than 1887">>)
             ELSE NoErr
    ELSE NoErr

TitlePlotErr(qq) ==
    IF qq.Plot # "" /\ qq.Plot # "short" /\ qq.Plot # "full"
    THEN NewError("validation",
           <<"omdb: Plot should be either blank or one of following: short, full">>)
    ELSE NoErr

(* The first validation error in program order, NoErr when there is none.  *)
SearchByTitleValidate(qq) ==
    IF qq.Title = "" THEN NewError("validation", <<"omdb: Title is missing">>)
    ELSE IF TitleSearchTypeErr(qq).kind # "nil" THEN TitleSearchTypeErr(qq)
    ELSE IF TitleYearErr(qq).kind # "nil" THEN TitleYearErr(qq)
    ELSE TitlePlotErr(qq)

SearchByTitleParams(qq) ==
    LET p1 == Add(NoParams, "t", qq.Title)
        p2 == IF qq.SearchType # "" THEN Add(p1, "type", qq.SearchType) ELSE p1
        p3 == IF qq.Year # <<>> THEN Add(p2, "y", qq.Year) ELSE p2
    IN  IF qq.Plot # "" THEN Add(p3, "plot", qq.Plot) ELSE p3

(* Mutant: the series and the episode targets are exchanged.               *)
SearchByTitleDecodeSwapped(data) ==
    LET e == UnmarshalEnvelope(data)
    IN  IF e.err # "none"
        THEN [val |-> Nil, err |-> DecodeError(e.err), events |-> <<"Unmarshal">>]
        ELSE IF e.v.Response = "False"
        THEN [val |-> Nil,
              err |-> NewError("api", <<"omdb: Error from OMDB API: ", e.v.Error>>),
              events |-> <<"Unmarshal">>]
        ELSE IF e.v.Type \in {"movie", "series", "episode"}
        THEN LET r == CASE e.v.Type = "movie" ->
                             UnmarshalResult("MovieResult", MovieFields, data)
                        [] e.v.Type = "series" ->
                             UnmarshalResult("EpisodeResult", EpisodeFields, data)
                        [] e.v.Type = "episode" ->
                             UnmarshalResult("SeriesResult", SeriesFields, data)
             IN  IF r.err # "none"
                 THEN [val |-> Nil, err |-> DecodeError(r.err),
                       events |-> <<"Unmarshal", "Unmarshal">>]
                 ELSE [val |-> r.v, err |-> NoErr,
                       events |-> <<"Unmarshal", "Unmarshal">>]
        ELSE [val |-> Nil, err |-> NoErr, events |-> <<"Unmarshal">>]


SearchByTitleDecode(data) ==
    LET e == UnmarshalEnvelope(data)
    IN  IF e.err # "none"
        THEN [val |-> Nil, err |-> DecodeError(e.err), events |-> <<"Unmarshal">>]
        ELSE IF e.v.Response = "False"
        THEN [val |-> Nil,
              err |-> NewError("api", <<"omdb: Error from OMDB API: ", e.v.Error>>),
              events |-> <<"Unmarshal">>]
        ELSE IF e.v.Type \in {"movie", "series", "episode"}
        THEN LET r == CASE e.v.Type = "movie" ->
                             UnmarshalResult("MovieResult", MovieFields, data)
                        [] e.v.Type = "series" ->
                             UnmarshalResult("SeriesResult", SeriesFields, data)
                        [] e.v.Type = "episode" ->
                             UnmarshalResult("EpisodeResult", EpisodeFields, data)
             IN  IF r.err # "none"
                 THEN [val |-> Nil, err |-> DecodeError(r.err),
                       events |-> <<"Unmarshal", "Unmarshal">>]
                 ELSE [val |-> r.v, err |-> NoErr,
                       events |-> <<"Unmarshal", "Unmarshal">>]
        ELSE [val |-> Nil, err |-> NoErr, events |-> <<"Unmarshal">>]

(* Mutant: the request is sent before the query is validated.              *)
SearchByTitleCallRequestFirst(qq) ==
    LET r == requestOmdbAPI(SearchByTitleParams(qq))
    IN  IF SearchByTitleValidate(qq).kind # "nil"
        THEN Out(Nil, SearchByTitleValidate(qq),
                 IF r.err.kind = "nil" THEN r.events \o <<"Close">> ELSE r.events, r.req)
        ELSE IF r.err.kind # "nil"
        THEN Out(Nil, r.err, r.events, r.req)
        ELSE IF env.readErr THEN Finish(r, ReadFailed)
        ELSE Finish(r, SearchByTitleDecode(r.res.body))


SearchByTitleCall(qq) ==
    IF SearchByTitleValidate(qq).kind # "nil"
    THEN Out(Nil, SearchByTitleValidate(qq), <<>>, NoReq)
    ELSE LET r == requestOmdbAPI(SearchByTitleParams(qq))
         IN  IF r.err.kind # "nil"
             THEN Out(Nil, r.err, r.events, r.req)
             ELSE IF env.readErr THEN Finish(r, ReadFailed)
        ELSE Finish(r, SearchByTitleDecode(r.res.body))

-----------------------------------------------------------------------------
(* Client.SearchByText                                                     *)

TextSearchTypeErr(qq) ==
    IF qq.SearchType # "" /\ qq.SearchType # "movie" /\ qq.SearchType # "series"
       /\ qq.SearchType # "episode"
    THEN NewError("validation",
           <<"omdb: Searchtype should be either blank or one of following: movie, series, episode">>)
    ELSE NoErr

TextYearErr(qq) ==
    IF qq.Year # <<>>
    THEN LET i == Atoi(qq.Year)
         IN  IF ~i.ok
             THEN NewError("validation",
                    <<"omdb: Year omdb: is either blank or a valid number">>)
             ELSE IF i.n < MinYear
             THEN NewError("validation",
                    <<"omdb: Year should be either blank or greater than 1887">>)
             ELSE NoErr
    ELSE NoErr

(* Mutant: the upper page boundary is exclusive.                           *)
TextPageErrOffByOne(qq) ==
    IF qq.Page # <<>>
    THEN LET i == Atoi(qq.Page)
         IN  IF ~i.ok
             THEN NewError("validation",
                    <<"omdb: Page should be either blank or a valid number">>)
             ELSE IF i.n < MinPage \/ i.n >= MaxPage
             THEN NewError("validation",
                    <<"omdb: Page should be either blank or between 1 to 100 (inclusive of both)">>)
             ELSE NoErr
    ELSE NoErr


TextPageErr(qq) ==
    IF qq.Page # <<>>
    THEN LET i == Atoi(qq.Page)
         IN  IF ~i.ok
             THEN NewError("validation",
                    <<"omdb: Page should be either blank or a valid number">>)
             ELSE IF i.n < MinPage \/ i.n > MaxPage
             THEN NewError("validation",
                    <<"omdb: Page should be either blank or between 1 to 100 (inclusive of both)">>)
             ELSE NoErr
    ELSE NoErr

SearchByTextValidate(qq) ==
    IF qq.Title = ""
    THEN NewError("validation", <<"omdb: Text to search (Title) is missing">>)
    ELSE IF TextSearchTypeErr(qq).kind # "nil" THEN TextSearchTypeErr(qq)
    ELSE IF TextYearErr(qq).kind # "nil" THEN TextYearErr(qq)
    ELSE TextPageErr(qq)

SearchByTextParams(qq) ==
    LET p1 == Add(NoParams, "s", qq.Title)
        p2 == IF qq.SearchType # "" THEN Add(p1, "type", qq.SearchType) ELSE p1
        p3 == IF qq.Year # <<>> THEN Add(p2, "y", qq.Year) ELSE p2
    IN  IF qq.Page # <<>> THEN Add(p3, "page", qq.Page) ELSE p3

(* Mutant: the success flag is compared with the wrong literal.            *)
SearchByTextDecodeWrongFlag(data) ==
    LET r == UnmarshalSearchResponse(data)
    IN  IF r.err # "none"
        THEN [val |-> Nil, err |-> DecodeError(r.err), events |-> <<"Unmarshal">>]
        ELSE IF r.v.f.Response = "false"
        THEN [val |-> Nil,
              err |-> NewError("api", <<"omdb: Error from OMDB API: ", r.v.f.Error>>),
              events |-> <<"Unmarshal">>]
        ELSE [val |-> r.v, err |-> NoErr, events |-> <<"Unmarshal">>]


SearchByTextDecode(data) ==
    LET r == UnmarshalSearchResponse(data)
    IN  IF r.err # "none"
        THEN [val |-> Nil, err |-> DecodeError(r.err), events |-> <<"Unmarshal">>]
        ELSE IF r.v.f.Response = "False"
        THEN [val |-> Nil,
              err |-> NewError("api", <<"omdb: Error from OMDB API: ", r.v.f.Error>>),
              events |-> <<"Unmarshal">>]
        ELSE [val |-> r.v, err |-> NoErr, events |-> <<"Unmarshal">>]

SearchByTextCall(qq) ==
    IF SearchByTextValidate(qq).kind # "nil"
    THEN Out(Nil, SearchByTextValidate(qq), <<>>, NoReq)
    ELSE LET r == requestOmdbAPI(SearchByTextParams(qq))
         IN  IF r.err.kind # "nil"
             THEN Out(Nil, r.err, r.events, r.req)
             ELSE IF env.readErr THEN Finish(r, ReadFailed)
             ELSE Finish(r, SearchByTextDecode(r.res.body))

-----------------------------------------------------------------------------
(* Inputs: clients, queries, transport behaviours                          *)

Keys == {"", "k3y"}

HttpClients == {"nil", "client"}

BaseQuery ==
    [Title |-> "Alien", Year |-> <<>>, ImdbID |-> "tt0078748",
     SearchType |-> "", Plot |-> "", Page |-> <<>>]

QueryFields == {"Title", "Year", "ImdbID", "SearchType", "Plot", "Page"}

AllQueries ==
    [Title      : {"", "Alien"},
     Year       : {<<>>, <<"1", "8", "8", "7">>, <<"1", "8", "8", "8">>, <<"x">>},
     ImdbID     : {"", "tt0078748"},
     SearchType : {"", "movie", "series", "episode", "game"},
     Plot       : {"", "short", "full", "long"},
     Page       : {<<>>, <<"0">>, <<"1">>, <<"1", "0", "0">>, <<"1", "0", "1">>}]

Queries ==
    {qq \in AllQueries :
        Cardinality({f \in QueryFields : qq[f] # BaseQuery[f]}) <= MaxDeviations}

MovieBody ==
    JObj([Type |-> JStr("movie"), Response |-> JStr("True"), Title |-> JStr("Alien"),
          Year |-> JStr("1979"), BoxOffice |-> JStr("$78,900,000"),
          Ratings |-> JArr(<<JObj([Source |-> JStr("Metacritic"),
                                   Value |-> JStr("89/100")])>>)])

SeriesBody ==
    JObj([Type |-> JStr("series"), Response |-> JStr("True"), Title |-> JStr("Lost"),
          TotalSeasons |-> JStr("6"), BoxOffice |-> JNum])

EpisodeBody ==
    JObj([Type |-> JStr("episode"), Response |-> JStr("True"), Title |-> JStr("Pilot"),
          SeriesID |-> JStr("tt0411008"), Ratings |-> JNull])

SearchBody ==
    JObj([Search |-> JArr(<<JObj([Title |-> JStr("Alien"), Year |-> JStr("1979"),
                                  ImdbID |-> JStr("tt0078748"), Type |-> JStr("movie")]),
                            JObj([Title |-> JStr("Aliens"), Year |-> JStr("1986")])>>),
          TotalResults |-> JStr("2"), Response |-> JStr("True")])

NotFoundBody ==
    JObj([Response |-> JStr("False"), Error |-> JStr("Movie not found!")])

Bodies ==
    { JInvalid, JNull, JNum, JArr(<<>>), JObj(<<>>),
      MovieBody, SeriesBody, EpisodeBody, SearchBody, NotFoundBody,
      (* the kind is there, the success flag is not *)
      JObj([Type |-> JStr("movie"), Title |-> JStr("Alien")]),
      (* a kind the client does not know *)
      JObj([Type |-> JStr("game"), Response |-> JStr("True"), Title |-> JStr("Doom")]),
      (* the flag is compared with "False" exactly *)
      JObj([Type |-> JStr("series"), Response |-> JStr("false"), Error |-> JStr("no")]),
      (* a reported failure that carries a kind and other fields *)
      JObj([Type |-> JStr("movie"), Response |-> JStr("False"),
            Error |-> JStr("Incorrect IMDb ID."), Title |-> JNum, Search |-> JNull]),
      (* a reported failure without a message *)
      JObj([Response |-> JStr("False"), Type |-> JStr("episode")]),
      (* a reported failure whose Type is not a JSON string *)
      JObj([Type |-> JNum, Response |-> JStr("False"), Error |-> JStr("Movie not found!")]),
      (* a reported failure whose Search is not a JSON array *)
      JObj([Response |-> JStr("False"), Error |-> JStr("Too many results."),
            Search |-> JStr("none")]),
      (* known kinds whose fields do not fit the variant *)
      JObj([Type |-> JStr("movie"), Response |-> JStr("True"), Title |-> JNum]),
      JObj([Type |-> JStr("movie"), Response |-> JStr("True"), BoxOffice |-> JNum]),
      JObj([Type |-> JStr("episode"), Response |-> JStr("True"),
            Ratings |-> JArr(<<JStr("8.1")>>)]),
      (* a search list with an element that is not an object *)
      JObj([Search |-> JArr(<<JNum>>), Response |-> JStr("True")]),
      (* a flag that is not a JSON string *)
      JObj([Type |-> JStr("movie"), Response |-> JNum]) }

OtherStatuses == {201, 404}

Envs ==
    {[doErr |-> TRUE, status |-> 0, body |-> JInvalid, readErr |-> FALSE]}
    \cup [doErr : {FALSE}, status : OtherStatuses,
          body : {MovieBody, NotFoundBody, JInvalid}, readErr : {FALSE}]
    \cup [doErr : {FALSE}, status : {StatusOK}, body : {MovieBody, JInvalid},
          readErr : {TRUE}]
    \cup [doErr : {FALSE}, status : {StatusOK}, body : Bodies, readErr : {FALSE}]

(* Strings for strconv.Atoi: every string over Alphabet up to MaxLen, and  *)
(* three numbers just outside int.                                         *)
Alphabet == {"0", "1", "7", "8", "9", "+", "-", "x"}

Strings == UNION {[1..n -> Alphabet] : n \in 0..MaxLen}

Nines == [i \in 1..20 |-> "9"]

AboveMaxInt ==
    <<"9", "2", "2", "3", "3", "7", "2", "0", "3", "6", "8", "5", "4", "7", "7",
      "5", "8", "0", "8">>

BelowMinInt ==
    <<"-", "9", "2", "2", "3", "3", "7", "2", "0", "3", "6", "8", "5", "4", "7",
      "7", "5", "8", "0", "9">>

AtoiInputs == Strings \cup {Nines, AboveMaxInt, BelowMinInt, <<"0">> \o AboveMaxInt}

-----------------------------------------------------------------------------
(* State machine                                                           *)

(* NewClient(key, client), and the query and the transport's behaviour of  *)
(* the calls to come; no call has been made.                               *)
NoCall ==
    /\ op = "none"
    /\ val = Nil
    /\ err = NoErr
    /\ events = <<>>
    /\ req = NoReq

Init ==
    /\ apiKey \in Keys
    /\ httpClient \in HttpClients
    /\ q \in Queries
    /\ env \in Envs
    /\ NoCall

InitAtoi ==
    /\ apiKey = "k3y"
    /\ httpClient = "client"
    /\ \/ \E s \in AtoiInputs : q = [BaseQuery EXCEPT !.Year = s]
       \/ \E s \in AtoiInputs : q = [BaseQuery EXCEPT !.Page = s]
    /\ env = [doErr |-> FALSE, status |-> StatusOK, body |-> SearchBody,
              readErr |-> FALSE]
    /\ NoCall

SearchByImdbID ==
    LET o == SearchByImdbIDCall(q)
    IN  /\ op' = "SearchByImdbID"
        /\ val' = o.val
        /\ err' = o.err
        /\ events' = o.events
        /\ req' = o.req
        /\ UNCHANGED <<apiKey, httpClient, q, env>>

SearchByTitle ==
    LET o == SearchByTitleCall(q)
    IN  /\ op' = "SearchByTitle"
        /\ val' = o.val
        /\ err' = o.err
        /\ events' = o.events
        /\ req' = o.req
        /\ UNCHANGED <<apiKey, httpClient, q, env>>

SearchByText ==
    LET o == SearchByTextCall(q)
    IN  /\ op' = "SearchByText"
        /\ val' = o.val
        /\ err' = o.err
        /\ events' = o.events
        /\ req' = o.req
        /\ UNCHANGED <<apiKey, httpClient, q, env>>

Next == SearchByImdbID \/ SearchByTitle \/ SearchByText

Spec == Init /\ [][Next]_vars

SpecAtoi == InitAtoi /\ [][Next]_vars

-----------------------------------------------------------------------------
(* Vocabulary of the properties                                            *)

Called == op # "none"

Count(ev, e) == Cardinality({i \in DOMAIN ev : ev[i] = e})

(* The transport was called and handed back a response.                    *)
Received == Called /\ Count(events, "Do") = 1 /\ ~env.doErr

(* A response with status 200 whose body was read in full.                 *)
Delivered == Received /\ env.status = StatusOK /\ ~env.readErr

IsLookup == op \in {"SearchByImdbID", "SearchByTitle"}

Kinds == {"movie", "series", "episode"}

VariantOf(kind) ==
    CASE kind = "movie" -> "MovieResult"
      [] kind = "series" -> "SeriesResult"
      [] kind = "episode" -> "EpisodeResult"

FieldsOf(kind) ==
    CASE kind = "movie" -> MovieFields
      [] kind = "series" -> SeriesFields
      [] kind = "episode" -> EpisodeFields

(* The envelope of the body decodes, does not report a failure, and names  *)
(* a known kind.                                                           *)
KnownKindDelivered ==
    /\ IsLookup
    /\ Delivered
    /\ UnmarshalEnvelope(env.body).err = "none"
    /\ UnmarshalEnvelope(env.body).v.Response # "False"
    /\ UnmarshalEnvelope(env.body).v.Type \in Kinds

(* Every string field and every rating of val is the payload's.            *)
MatchesPayload(v, body) ==
    /\ \A f \in DOMAIN v.f :
         v.f[f] = IF Member(body, f).k = "string" THEN Member(body, f).s ELSE ""
    /\ LET rs == Member(body, "Ratings")
       IN  IF rs.k = "array"
           THEN /\ Len(v.Ratings) = Len(rs.items)
                /\ \A i \in 1..Len(rs.items) : \A f \in RatingFields :
                     v.Ratings[i][f] = IF Member(rs.items[i], f).k = "string"
                                       THEN Member(rs.items[i], f).s ELSE ""
           ELSE v.Ratings = <<>>

(* The payload's values fit the fields of the variant of its kind.         *)
FitsVariant(kind, body) ==
    /\ \A f \in FieldsOf(kind) : Member(body, f).k \in {"string", "null", "absent"}
    /\ LET rs == Member(body, "Ratings")
       IN  \/ rs.k \in {"null", "absent"}
           \/ /\ rs.k = "array"
              /\ \A i \in 1..Len(rs.items) :
                   \/ rs.items[i].k = "null"
                   \/ /\ rs.items[i].k = "object"
                      /\ \A f \in RatingFields :
                           Member(rs.items[i], f).k \in {"string", "null", "absent"}

-----------------------------------------------------------------------------
(* Properties                                                              *)

(* C1, as stated: a lookup whose envelope decodes, reports no failure and  *)
(* names a known kind returns a nil error and the variant of that kind.    *)
C1_AlwaysVariant ==
    KnownKindDelivered =>
        /\ err.kind = "nil"
        /\ val.kind = VariantOf(UnmarshalEnvelope(env.body).v.Type)

(* C1, amended: such a lookup returns either nil with a decode error, when *)
(* the payload's values do not fit the fields of the variant of its kind,  *)
(* or a nil error and a value of exactly that variant whose fields are the *)
(* payload's; no other variant is returned.                                *)
C1_VariantOrDecodeError ==
    KnownKindDelivered =>
        LET kind == UnmarshalEnvelope(env.body).v.Type
        IN  IF FitsVariant(kind, env.body)
            THEN /\ err.kind = "nil"
                 /\ val.kind = VariantOf(kind)
                 /\ MatchesPayload(val, env.body)
            ELSE /\ val.kind = "nil"
                 /\ err.kind = "decode"

C1_Witness ==
    /\ KnownKindDelivered
    /\ op = "SearchByTitle"
    /\ val.kind = "SeriesResult"
    /\ val.f.TotalSeasons = "6"

(* The payload is a JSON object with Response = "False" and a string Error. *)
ReportsFailure ==
    /\ Delivered
    /\ env.body.k = "object"
    /\ Member(env.body, "Response") = JStr("False")
    /\ Member(env.body, "Error").k = "string"

ApiErrorWith(m) ==
    /\ val.kind = "nil"
    /\ err.kind = "api"
    /\ \E i \in 1..Len(err.msg) : err.msg[i] = m

(* The error json.Unmarshal gives for the body in the operation's first    *)
(* decode: into the envelope for a lookup, into the search response for    *)
(* SearchByText.                                                           *)
TargetErr ==
    IF IsLookup THEN UnmarshalEnvelope(env.body).err
    ELSE UnmarshalSearchResponse(env.body).err

(* C2, as stated: for all three operations a 200 payload with Response =   *)
(* "False" and Error = m gives nil and an API error containing m, whatever *)
(* the other fields of the payload are.                                    *)
C2_AlwaysApiError ==
    ReportsFailure => ApiErrorWith(Member(env.body, "Error").s)

(* C2, amended: the same, for a payload that decodes without error into    *)
(* the operation's decode target (the envelope, or the search response);   *)
(* the value of Type and the fields outside the target do not matter.      *)
C2_ApiErrorWhenDecodable ==
    (ReportsFailure /\ TargetErr = "none") => ApiErrorWith(Member(env.body, "Error").s)

C2_Witness ==
    /\ ReportsFailure
    /\ op = "SearchByText"
    /\ err.kind = "api"
    /\ err.msg[2] = "Movie not found!"

ValidSearchType == q.SearchType \in {"", "movie", "series", "episode"}

(* The query passes the validation of the operation that was called.       *)
PassesValidation ==
    CASE op = "SearchByImdbID" -> q.ImdbID # ""
      [] op = "SearchByTitle" -> SearchByTitleValidate(q).kind = "nil"
      [] op = "SearchByText" -> SearchByTextValidate(q).kind = "nil"
      [] OTHER -> FALSE

MissingRequiredField ==
    \/ op = "SearchByImdbID" /\ q.ImdbID = ""
    \/ op \in {"SearchByTitle", "SearchByText"} /\ q.Title = ""

(* C3: a query without its required field fails with a validation error,  *)
(* and whenever an operation returns a validation error nothing has been   *)
(* sent, whatever the key and the transport of the client are.             *)
C3_ValidationBeforeNetwork ==
    /\ MissingRequiredField => err.kind = "validation"
    /\ err.kind = "validation" =>
         /\ val.kind = "nil"
         /\ events = <<>>
         /\ ~req.sent

C3_Witness ==
    /\ op = "SearchByTitle"
    /\ apiKey # "" /\ httpClient # "nil"
    /\ q.Title # "" /\ q.Year = <<"1", "8", "8", "7">>
    /\ err.kind = "validation"
    /\ events = <<>>

(* C4, as stated: when an operation returns, exactly one of the result and *)
(* the error is non-nil.                                                   *)
C4_ResultXorError ==
    Called => ((val.kind # "nil") # (err.kind # "nil"))

(* C5: a response whose status is not 200 gives the unexpected-status      *)
(* error of that status; the body is neither read nor unmarshalled, so     *)
(* the outcome is the same whatever the body is.                           *)
C5_StatusBeforeDecode ==
    (Received /\ env.status # StatusOK) =>
        /\ val.kind = "nil"
        /\ err = NewError("status", <<"http Status = ", env.status>>)
        /\ Count(events, "ReadAll") = 0
        /\ Count(events, "Unmarshal") = 0

C5_Witness ==
    /\ Received
    /\ env.status = 404
    /\ env.body = MovieBody
    /\ err.kind = "status"

Misconfigured == apiKey = "" \/ httpClient = "nil"

(* C6: on a client whose key is empty or whose transport is nil nothing is *)
(* ever sent, and an operation whose query passes validation returns a     *)
(* configuration error.                                                    *)
C6_ConfigurationError ==
    (Called /\ Misconfigured) =>
        /\ events = <<>>
        /\ ~req.sent
        /\ val.kind = "nil"
        /\ err.kind \in {"validation", "config"}
        /\ PassesValidation => err.kind = "config"

C6_Witness ==
    /\ op = "SearchByText"
    /\ apiKey = "" /\ httpClient # "nil"
    /\ PassesValidation
    /\ err.kind = "config"

YearRejected ==
    /\ err.kind = "validation"
    /\ err.msg \in {<<"omdb: Year should be either blank or a valid number">>,
                    <<"omdb: Year omdb: is either blank or a valid number">>,
                    <<"omdb: Year should be either blank or greater than 1887">>}

(* The operation validates Year and the checks before it pass.             *)
YearChecked ==
    /\ op \in {"SearchByTitle", "SearchByText"}
    /\ q.Title # ""
    /\ ValidSearchType

(* C7: in SearchByTitle and SearchByText an empty Year passes, a Year that *)
(* strconv.Atoi does not parse fails, and a Year that parses as y fails    *)
(* when y < 1888 and passes when y >= 1888; "1887" fails, "1888" passes.   *)
C7_YearBoundary ==
    YearChecked =>
        /\ q.Year = <<>> => ~YearRejected
        /\ (q.Year # <<>> /\ ~Atoi(q.Year).ok) => YearRejected
        /\ (q.Year # <<>> /\ Atoi(q.Year).ok /\ Atoi(q.Year).n < 1888) => YearRejected
        /\ (q.Year # <<>> /\ Atoi(q.Year).ok /\ Atoi(q.Year).n >= 1888) => ~YearRejected
        /\ q.Year = <<"1", "8", "8", "7">> => YearRejected
        /\ q.Year = <<"1", "8", "8", "8">> => ~YearRejected
        /\ q.Year \in {<<"-", "1">>, <<"1", "8", "x">>, <<"+">>} => YearRejected

C7_Witness ==
    /\ op = "SearchByTitle"
    /\ q.Year = <<"1", "8", "8", "8">>
    /\ err.kind = "nil"
    /\ req.sent
    /\ req.params["y"] = <<"1", "8", "8", "8">>

PageRejected ==
    /\ err.kind = "validation"
    /\ err.msg \in {<<"omdb: Page should be either blank or a valid number">>,
                    <<"omdb: Page should be either blank or between 1 to 100 (inclusive of both)">>}

(* SearchByText validates Page and the checks before it pass.              *)
PageChecked ==
    /\ op = "SearchByText"
    /\ q.Title # ""
    /\ ValidSearchType
    /\ ~YearRejected

(* C8: in SearchByText an empty Page passes, a Page that strconv.Atoi does *)
(* not parse fails, and a Page that parses as p passes exactly when        *)
(* 1 <= p <= 100; "0" and "101" fail, "1" and "100" pass.                  *)
C8_PageRange ==
    PageChecked =>
        /\ q.Page = <<>> => ~PageRejected
        /\ (q.Page # <<>> /\ ~Atoi(q.Page).ok) => PageRejected
        /\ (q.Page # <<>> /\ Atoi(q.Page).ok) =>
             (PageRejected <=> ~(1 <= Atoi(q.Page).n /\ Atoi(q.Page).n <= 100))
        /\ q.Page \in {<<"0">>, <<"1", "0", "1">>, <<"-", "1">>, <<"1", "x">>}
             => PageRejected
        /\ q.Page \in {<<"1">>, <<"1", "0", "0">>, <<"+", "1">>, <<"0", "1", "0">>}
             => ~PageRejected

C8_Witness ==
    /\ op = "SearchByText"
    /\ q.Page = <<"1", "0", "0">>
    /\ err.kind = "nil"
    /\ req.sent
    /\ req.params["page"] = <<"1", "0", "0">>

(* The query that holds the identifier and nothing else, and one whose     *)
(* other fields all fail the validation of the other operations.           *)
IdOnly(id) ==
    [Title |-> "", Year |-> <<>>, ImdbID |-> id, SearchType |-> "", Plot |-> "",
     Page |-> <<>>]

IdAmongInvalid(id) ==
    [Title |-> "", Year |-> <<"x">>, ImdbID |-> id, SearchType |-> "game",
     Plot |-> "long", Page |-> <<"0">>]

(* C9: SearchByImdbID with an identifier sends exactly i and apikey, and   *)
(* what it sends and returns is what it sends and returns for the query    *)
(* that holds only that identifier and for one whose other fields are all  *)
(* invalid; so any two queries with the same identifier agree.             *)
C9_OnlyIdentifier ==
    (op = "SearchByImdbID" /\ q.ImdbID # "") =>
        /\ req.sent =>
             /\ DOMAIN req.params = {"i", "apikey"}
             /\ req.params["i"] = q.ImdbID
             /\ req.params["apikey"] = apiKey
        /\ \A q2 \in {IdOnly(q.ImdbID), IdAmongInvalid(q.ImdbID)} :
             Out(val, err, events, req) = SearchByImdbIDCall(q2)

C9_Witness ==
    /\ op = "SearchByImdbID"
    /\ q.ImdbID # "" /\ q.Title = "" /\ q.Year = <<"x">>
    /\ req.sent
    /\ val.kind = "MovieResult"

(* C10: whenever the transport hands back a response, its body has been    *)
(* closed exactly once when the operation returns, and nothing touches it  *)
(* after the close.                                                        *)
C10_ClosedExactlyOnce ==
    Received =>
        /\ Count(events, "Close") = 1
        /\ events[Len(events)] = "Close"

C10_Witness ==
    /\ Received
    /\ env.status = StatusOK
    /\ err.kind = "decode"
    /\ Count(events, "Unmarshal") = 2
    /\ Count(events, "Close") = 1

====
